---- MODULE Spec2Model ----
(***************************************************************************)
(* Voice session controller of the Discord audio stream bot                *)
(* (src/src/index.js, src/src/stream.js).                                  *)
(*                                                                         *)
(* State: the voice-connection registry kept by @discordjs/voice (what     *)
(* getVoiceConnection reads), the bot's own voice state in the member      *)
(* cache and the gateway updates still in flight towards it, the single    *)
(* shared audio player, the command handlers suspended on an awaited        *)
(* channel.send, and the process. voiceConnection is the closure variable  *)
(* all voiceController calls share: the handle the latest call resolved,   *)
(* held as the guild whose connection it is.                               *)
(* One action per handler segment between two awaits: JavaScript runs each *)
(* segment to completion, other handlers interleave only at the awaits.    *)
(* cmd holds the input the step just taken handled (a command message, the *)
(* device chosen at the prompt, or the interrupt signal with the guilds the *)
(* handler logged as left), sent the reply                                 *)
(* that step handed to channel.send, done the handler that has just ended; *)
(* each is empty after any other step.                                     *)
(***************************************************************************)
EXTENDS Naturals, Sequences, FiniteSets, Bags, TLC

VARIABLES sessions, voiceConnection, memberVoice, vsQueue, player, handlers,
          cmd, sent, done, proc

vars == <<sessions, voiceConnection, memberVoice, vsQueue, player, handlers,
          cmd, sent, done, proc>>

-----------------------------------------------------------------------------
(* Bounds *)

\* command handlers that may be suspended on an await at the same time
MaxInFlight == 1
\* gateway voice-state updates not yet applied to the member cache
MaxPending == 2

-----------------------------------------------------------------------------
(* The guilds and channels the client has cached *)

Guilds == {"G1", "G2"}
VoiceChannels == {"A1", "B1", "A2"}
TextChannels == {"T1"}
ChannelIds == VoiceChannels \cup TextChannels
\* an 18-digit id that no cached channel has
UnknownId == "X0"
\* targets that match /^\d{18}$/ and targets that do not
IdTargets == ChannelIds \cup {UnknownId}
NameTargets == {"alpha", "general"}
Targets == IdTargets \cup NameTargets

Null == "null"
TypeError == "TypeError"

GuildOf(c) == IF c \in {"A1", "B1", "T1"} THEN "G1" ELSE "G2"

ChannelName(c) ==
  CASE c = "A1" -> "alpha"
    [] c = "B1" -> "beta"
    [] c = "A2" -> "gamma"
    [] c = "T1" -> "text"

ChannelType(c) == IF c \in VoiceChannels THEN "GuildVoice" ELSE "GuildText"

-----------------------------------------------------------------------------
(* Target resolution *)

\* channelId.match(/^\d{18}$/g)
Matches18Digits(t) == t \in IdTargets

\* channel.guild.channels.cache.find(type === GuildVoice && name === channelName):
\* the set of matches in the guild of the text channel the command came from
GetVoiceChannelByName(g, name) ==
  {c \in ChannelIds : /\ GuildOf(c) = g
                      /\ ChannelType(c) = "GuildVoice"
                      /\ ChannelName(c) = name}

\* joinChannelId as the message handler computes it; reading .id of the
\* undefined result of a failed find throws a TypeError
ResolveTarget(g, t) ==
  IF Matches18Digits(t) THEN t
  ELSE IF GetVoiceChannelByName(g, t) = {} THEN TypeError
       ELSE CHOOSE c \in GetVoiceChannelByName(g, t) : TRUE

\* client.channels.cache.get(channelId): the cache of ALL guilds' channels
ChannelsCacheGet(id) == IF id \in ChannelIds THEN id ELSE Null

\* mutant: only the missing channel is tested, not the channel's type
InvalidTarget_NoTypeTest(action, voiceChannel) ==
  voiceChannel = Null /\ action # "stop"

\* the validity test that opens voiceController
InvalidTarget(action, voiceChannel) ==
  \/ (voiceChannel = Null /\ action # "stop")
  \/ (voiceChannel # Null /\ ChannelType(voiceChannel) # "GuildVoice")

-----------------------------------------------------------------------------
(* The voice-connection registry *)

\* getVoiceConnection(guild.id): the tracked connections of the guild
GetVoiceConnection(reg, g) == {s \in reg : s.guild = g}

\* mutant: every call creates and tracks a connection of its own
JoinVoiceChannel_AlwaysNew(reg, c) ==
  reg \cup {[guild |-> GuildOf(c), channel |-> c, subscribed |-> FALSE]}

\* mutant: a guild that has a connection keeps it where it is
JoinVoiceChannel_NoMove(reg, c) ==
  IF GetVoiceConnection(reg, GuildOf(c)) # {} THEN reg
  ELSE reg \cup {[guild |-> GuildOf(c), channel |-> c, subscribed |-> FALSE]}

\* joinVoiceChannel({channelId, guildId: voiceChannel.guild.id, ...}): a tracked
\* connection of the channel's guild is reused and moved to the channel, else a
\* new connection is created and tracked
JoinVoiceChannel(reg, c) ==
  LET existing == GetVoiceConnection(reg, GuildOf(c))
  IN  IF existing # {}
      THEN (reg \ existing) \cup {[s EXCEPT !.channel = c] : s \in existing}
      ELSE reg \cup {[guild |-> GuildOf(c), channel |-> c, subscribed |-> FALSE]}

\* mutant: the player is never attached
Subscribe_Forgotten(reg, c) == reg

\* connection.subscribe(player) on the connection joinVoiceChannel returned
Subscribe(reg, c) ==
  {IF s.guild = GuildOf(c) /\ s.channel = c
   THEN [s EXCEPT !.subscribed = TRUE] ELSE s : s \in reg}

\* mutant: a handle that is held is not resolved again
ResolveConnection_KeepsHeld(held, reg, g) ==
  IF held # {} THEN held ELSE {s.guild : s \in GetVoiceConnection(reg, g)}

\* voiceConnection = getVoiceConnection(guild.id): whatever the shared variable
\* held, it now holds the handle of the calling guild's connection, or nothing
ResolveConnection(held, reg, g) == {s.guild : s \in GetVoiceConnection(reg, g)}

\* the registered connections a held handle refers to
Held(reg, held) == {s \in reg : s.guild \in held}

\* mutant: a destroyed connection stays tracked
Destroy_LeavesTracked(reg, conns) == reg

\* voiceConnection.destroy(): the connections in conns leave the registry
Destroy(reg, conns) == reg \ conns

\* the payloads destroy() hands to the gateway: the guild's voice state goes to null
LeavePayloads(q, conns) ==
  [g \in Guilds |-> IF \E s \in conns : s.guild = g THEN Append(q[g], Null) ELSE q[g]]

\* the payload joinVoiceChannel hands to the gateway
JoinPayload(q, c) == [q EXCEPT ![GuildOf(c)] = Append(@, c)]

-----------------------------------------------------------------------------
(* Startup: the audio device and createStream *)

RequiredSampleRate == 48000

\* the descriptors portAudio.getDevices() offers at the prompt
Devices == [defaultSampleRate : {44100, RequiredSampleRate}, maxInputChannels : {1, 2}]

\* mutant: every device is taken
Supported_Any(device) == TRUE

\* the test that opens createStream: a device that fails it makes createStream throw
Supported(device) == device.defaultSampleRate = RequiredSampleRate

-----------------------------------------------------------------------------
(* The shared player *)

\* let player; before createStream has returned
NoPlayer == [status |-> "none", ending |-> FALSE]

\* createStream: player.play(resource); audio.start(). The player holds the
\* resource of the capture stream from then on; without a subscribed connection
\* it pauses itself and resumes with the next one, which the status
\* "Playing" does not tell apart.
InitialPlayer == [status |-> "Playing", ending |-> FALSE]

\* player.stop(): a player that is not Idle ends its resource (it turns Idle
\* once the resource's closing silence frames have been played)
PlayerStop(p) == IF p.status = "Idle" THEN p ELSE [p EXCEPT !.ending = TRUE]

\* the connections the player has to play to
Subscribers(reg) == {s \in reg : s.subscribed}

-----------------------------------------------------------------------------
(* Replies *)

\* the embed handed to channel.send: Connected, Disconnected and InvalidTarget
\* name a channel, the other two do not
Reply(kind, ref) == [kind |-> kind, ref |-> ref]
NoReply == Reply("none", Null)

\* a command message that mentions the bot: play with its target, or stop;
\* joinThrows says what the joinVoiceChannel of a play that reaches it does
Command(action, g, t, joinThrows) ==
  [action |-> action, guild |-> g, target |-> t, joinThrows |-> joinThrows]

\* a handler suspended on its awaited channel.send (or ended, in done): the
\* command, the kind of reply it is sending, and whether its joinVoiceChannel
\* created a connection for a guild that had none
Handler(action, stage, kind, created) ==
  [action |-> action, stage |-> stage, kind |-> kind, created |-> created]

-----------------------------------------------------------------------------
(* voiceController, up to its first await *)

\* case 'play' (and the validity test before the switch); joinThrows says
\* whether joinVoiceChannel throws instead of returning a connection
ControllerPlay(reg, q, channelId, joinThrows) ==
  LET voiceChannel == ChannelsCacheGet(channelId)
  IN  IF InvalidTarget("play", voiceChannel)
      THEN [sessions |-> reg, vsQueue |-> q, joinAttempted |-> FALSE,
            reply |-> Reply("InvalidTarget", channelId), stage |-> "awaitFinal"]
      ELSE IF joinThrows
      THEN [sessions |-> reg, vsQueue |-> q, joinAttempted |-> TRUE,
            reply |-> Reply("ConnectionFailed", Null), stage |-> "awaitFinal"]
      ELSE [sessions |-> Subscribe(JoinVoiceChannel(reg, voiceChannel), voiceChannel),
            vsQueue |-> JoinPayload(q, voiceChannel), joinAttempted |-> TRUE,
            reply |-> Reply("Connected", channelId), stage |-> "awaitConnected"]

\* mutant: player.stop() is called before the test for a connection
ControllerStop_StopsFirst(reg, q, p, conns, connectedTo) ==
  IF conns # {}
  THEN [sessions |-> Destroy(reg, conns),
        vsQueue |-> LeavePayloads(q, conns),
        player |-> PlayerStop(p),
        thrown |-> (connectedTo = Null),
        reply |-> IF connectedTo = Null THEN NoReply
                  ELSE Reply("Disconnected", connectedTo)]
  ELSE [sessions |-> reg, vsQueue |-> q, player |-> PlayerStop(p),
        thrown |-> FALSE, reply |-> Reply("NotConnected", Null)]

\* case 'stop'. conns is what getVoiceConnection(guild.id) returned, connectedTo
\* the channel of the bot's cached voice state (Null when it has none); reading
\* connectedTo.id of a null connectedTo throws after the connection is destroyed.
ControllerStop(reg, q, p, conns, connectedTo) ==
  IF conns # {}
  THEN [sessions |-> Destroy(reg, conns),
        vsQueue |-> LeavePayloads(q, conns),
        player |-> PlayerStop(p),
        thrown |-> (connectedTo = Null),
        reply |-> IF connectedTo = Null THEN NoReply
                  ELSE Reply("Disconnected", connectedTo)]
  ELSE [sessions |-> reg, vsQueue |-> q, player |-> p, thrown |-> FALSE,
        reply |-> Reply("NotConnected", Null)]

\* the guilds that have a tracked connection in reg
Connected(reg) == {s.guild : s \in reg}

-----------------------------------------------------------------------------
(* The process *)

InterruptedExitCode == 130
\* process.exit(0) in the catch around createStream
StartupFailureExitCode == 0

Running == proc.status = "running"

InFlight == BagCardinality(handlers)

RECURSIVE Pending(_, _)
Pending(q, gs) ==
  IF gs = {} THEN 0
  ELSE LET g == CHOOSE x \in gs : TRUE IN Len(q[g]) + Pending(q, gs \ {g})

QueueBounded(q) == Pending(q, Guilds) <= MaxPending

Init ==
  /\ sessions = {}
  /\ voiceConnection = {}
  /\ memberVoice = [g \in Guilds |-> Null]
  /\ vsQueue = [g \in Guilds |-> <<>>]
  /\ player = NoPlayer
  /\ handlers = EmptyBag
  /\ cmd = {}
  /\ sent = {}
  /\ done = {}
  /\ proc = [status |-> "starting", code |-> 0]

-----------------------------------------------------------------------------
(* ClientReady *)

\* createStream(client, device): throws on an unsupported device before anything
\* is constructed; captureThrows says whether new portAudio.AudioIO throws (the
\* player is constructed by then, but createStream returns nothing)
CreateStream(device, captureThrows) ==
  IF ~Supported(device)
  THEN [thrown |-> "unsupported", constructed |-> FALSE, player |-> NoPlayer]
  ELSE IF captureThrows
  THEN [thrown |-> "captureFailed", constructed |-> TRUE, player |-> NoPlayer]
  ELSE [thrown |-> "none", constructed |-> TRUE, player |-> InitialPlayer]

\* the ready handler up to its first await: the catch's setStatus('invisible')
\* when createStream threw, else setStatus('online')
ClientReady(device, captureThrows) ==
  /\ proc.status = "starting"
  /\ Supported(device) \/ ~captureThrows
  /\ LET r == CreateStream(device, captureThrows)
     IN  /\ player' = r.player
         /\ proc' = [status |-> IF r.thrown = "none" THEN "online" ELSE r.thrown,
                     code |-> 0]
         /\ cmd' = {[action |-> "ready", device |-> device, constructed |-> r.constructed]}
  /\ sent' = {}
  /\ done' = {}
  /\ UNCHANGED <<sessions, voiceConnection, memberVoice, vsQueue, handlers>>

\* after the catch's await: console.error, process.exit(0)
StartupExit ==
  /\ proc.status \in {"unsupported", "captureFailed"}
  /\ proc' = [status |-> "exited", code |-> StartupFailureExitCode]
  /\ cmd' = {}
  /\ sent' = {}
  /\ done' = {}
  /\ UNCHANGED <<sessions, voiceConnection, memberVoice, vsQueue, player, handlers>>

\* after await setStatus('online'): the MessageCreate and SIGINT listeners are
\* registered, commands and the signal are handled from here on
ListenersRegistered ==
  /\ proc.status = "online"
  /\ proc' = [status |-> "running", code |-> 0]
  /\ cmd' = {}
  /\ sent' = {}
  /\ done' = {}
  /\ UNCHANGED <<sessions, voiceConnection, memberVoice, vsQueue, player, handlers>>

-----------------------------------------------------------------------------
(* MessageCreate: "@bot play <target>" in a text channel of guild g *)

Play(g, t, joinThrows) ==
  /\ Running
  /\ InFlight < MaxInFlight
  /\ cmd' = {Command("play", g, t, joinThrows)}
  /\ LET channelId == ResolveTarget(g, t)
     IN  IF channelId = TypeError
         THEN /\ ~joinThrows
              /\ done' = {Handler("play", "rejected", "none", FALSE)}
              /\ sent' = {}
              /\ UNCHANGED <<sessions, voiceConnection, memberVoice, vsQueue,
                             player, handlers, proc>>
         ELSE \E r \in {ControllerPlay(sessions, vsQueue, channelId, joinThrows)} :
                  /\ r.joinAttempted \/ ~joinThrows
                  /\ QueueBounded(r.vsQueue)
                  /\ voiceConnection' = ResolveConnection(voiceConnection, sessions, g)
                  /\ sessions' = r.sessions
                  /\ vsQueue' = r.vsQueue
                  /\ handlers' = handlers (+) SetToBag(
                       {Handler("play", r.stage, r.reply.kind,
                                Connected(r.sessions) # Connected(sessions))})
                  /\ sent' = {r.reply}
                  /\ done' = {}
                  /\ UNCHANGED <<memberVoice, player, proc>>

(* MessageCreate: "@bot stop" in a text channel of guild g *)

Stop(g) ==
  /\ Running
  /\ InFlight < MaxInFlight
  /\ cmd' = {Command("stop", g, Null, FALSE)}
  /\ \E held \in {ResolveConnection(voiceConnection, sessions, g)} :
     \E r \in {ControllerStop(sessions, vsQueue, player, Held(sessions, held),
                              memberVoice[g])} :
         /\ QueueBounded(r.vsQueue)
         /\ voiceConnection' = held
         /\ sessions' = r.sessions
         /\ vsQueue' = r.vsQueue
         /\ player' = r.player
         /\ IF r.thrown
            THEN /\ done' = {Handler("stop", "rejected", "none", FALSE)}
                 /\ sent' = {}
                 /\ UNCHANGED handlers
            ELSE /\ handlers' = handlers (+) SetToBag(
                       {Handler("stop", "awaitFinal", r.reply.kind, FALSE)})
                 /\ sent' = {r.reply}
                 /\ done' = {}
         /\ UNCHANGED <<memberVoice, proc>>

(* The awaited channel.send of a suspended handler h settles: ok, or rejected *)

ReplySettled(h, ok) ==
  /\ Running
  /\ h \in BagToSet(handlers)
  /\ IF h.stage = "awaitConnected" /\ ~ok
     THEN \* the catch of case 'play': the error reply is sent
          /\ handlers' = (handlers (-) SetToBag({h})) (+) SetToBag(
               {[h EXCEPT !.stage = "awaitFinal", !.kind = "ConnectionFailed"]})
          /\ sent' = {Reply("ConnectionFailed", Null)}
          /\ done' = {}
     ELSE /\ handlers' = handlers (-) SetToBag({h})
          /\ sent' = {}
          /\ done' = {[h EXCEPT !.stage = IF ok THEN "completed" ELSE "rejected"]}
  /\ cmd' = {}
  /\ UNCHANGED <<sessions, voiceConnection, memberVoice, vsQueue, player, proc>>

(* The promise of the handler that has just ended is rejected and nobody handles
   it: a runtime in its default unhandled-rejection mode ends the process (one
   that only warns goes on, which is every other step) *)

UnhandledRejection ==
  /\ Running
  /\ \E h \in done : h.stage = "rejected"
  /\ proc' = [status |-> "crashed", code |-> 1]
  /\ cmd' = {}
  /\ sent' = {}
  /\ done' = {}
  /\ UNCHANGED <<sessions, voiceConnection, memberVoice, vsQueue, player, handlers>>

(* The gateway's VOICE_STATE_UPDATE for the bot reaches the member cache *)

VoiceStateUpdate(g) ==
  /\ Running
  /\ vsQueue[g] # <<>>
  /\ memberVoice' = [memberVoice EXCEPT ![g] = Head(vsQueue[g])]
  /\ vsQueue' = [vsQueue EXCEPT ![g] = Tail(@)]
  /\ cmd' = {}
  /\ sent' = {}
  /\ done' = {}
  /\ UNCHANGED <<sessions, voiceConnection, player, handlers, proc>>

-----------------------------------------------------------------------------
(* The player's audio cycle *)

\* the listener createStream registers for AudioPlayerStatus.Idle evaluates
\* connection.destroy() where no connection is in scope: a ReferenceError
\* thrown out of the player's emit, which nothing catches
IdleListener == [status |-> "crashed", code |-> 1]

\* the resource player.stop() ended has played out its closing silence to a
\* subscribed connection: the player turns Idle and its Idle listener runs
PlayerIdle ==
  /\ Running
  /\ player.status = "Playing"
  /\ player.ending
  /\ Subscribers(sessions) # {}
  /\ player' = [status |-> "Idle", ending |-> FALSE]
  /\ proc' = IdleListener
  /\ cmd' = {}
  /\ sent' = {}
  /\ done' = {}
  /\ UNCHANGED <<sessions, voiceConnection, memberVoice, vsQueue, handlers>>

-----------------------------------------------------------------------------
(* SIGINT *)

\* mutant: the loop ends after the first guild that has a connection
LeaveVoiceChannels_FirstOnly(reg) ==
  IF reg = {} THEN {}
  ELSE GetVoiceConnection(reg, CHOOSE g \in Guilds : GetVoiceConnection(reg, g) # {})

\* client.guilds.cache.forEach: the connections getVoiceConnection(guild.id)
\* returns for the cached guilds, each of which is destroyed
LeaveVoiceChannels(reg) == UNION {GetVoiceConnection(reg, g) : g \in Guilds}

\* mutant: the handler waits for the gateway to confirm the departures
SigintExit_AwaitsTeardown == [status |-> "running", code |-> 0]

\* the handler ends in process.exit(130); nothing in it is awaited
SigintExit == [status |-> "exited", code |-> InterruptedExitCode]

Sigint ==
  /\ Running
  /\ sessions' = Destroy(sessions, LeaveVoiceChannels(sessions))
  /\ vsQueue' = LeavePayloads(vsQueue, LeaveVoiceChannels(sessions))
  /\ proc' = SigintExit
  /\ cmd' = {[action |-> "SIGINT", left |-> Connected(LeaveVoiceChannels(sessions))]}
  /\ sent' = {}
  /\ done' = {}
  /\ UNCHANGED <<voiceConnection, memberVoice, player, handlers>>

-----------------------------------------------------------------------------

Next ==
  \/ \E device \in Devices, captureThrows \in BOOLEAN : ClientReady(device, captureThrows)
  \/ StartupExit
  \/ ListenersRegistered
  \/ \E g \in Guilds, t \in Targets, joinThrows \in BOOLEAN : Play(g, t, joinThrows)
  \/ \E g \in Guilds : Stop(g)
  \/ \E h \in BagToSet(handlers), ok \in BOOLEAN : ReplySettled(h, ok)
  \/ UnhandledRejection
  \/ \E g \in Guilds : VoiceStateUpdate(g)
  \/ PlayerIdle
  \/ Sigint

Spec == Init /\ [][Next]_vars

-----------------------------------------------------------------------------
(* Properties of the voice controller *)

\* the pipeline still delivers the captured audio: the player is not Idle and
\* its resource has not been ended
PipelinePlaying(p) == p.status = "Playing" /\ ~p.ending

\* a handler suspended on the send of a reply of this kind
Awaiting(kind) == {h \in BagToSet(handlers) : h.kind = kind}

\* the play handler that has just ended failed: it was rejected, or the reply
\* it ended on reports an error
FailedPlay(h) ==
  /\ h.action = "play"
  /\ \/ h.stage = "rejected"
     \/ h.kind \in {"InvalidTarget", "ConnectionFailed"}

\* the command just handled is a play in guild c.guild whose target resolves to
\* a voice channel of that guild, and whose joinVoiceChannel returns
PlaysInGroup(c) ==
  /\ c.action = "play"
  /\ ~c.joinThrows
  /\ ResolveTarget(c.guild, c.target) \in VoiceChannels
  /\ GuildOf(ResolveTarget(c.guild, c.target)) = c.guild

\* C1: a play that fails, for whatever cause, has registered no session for a
\* group that had none (its joinVoiceChannel created no connection that the
\* failed handler leaves behind).
C1_FailedPlayRegistersNothing ==
  \A h \in done : FailedPlay(h) => ~h.created

C3_StopKeepsPipelinePlaying ==
  [][\A c \in cmd' :
       (/\ c.action = "stop"
        /\ GetVoiceConnection(sessions, c.guild) # {}
        /\ \E r \in sent' : r.kind = "Disconnected"
        /\ PipelinePlaying(player))
       => PipelinePlaying(player')]_vars

\* C4: with a session in each of two groups, a stop in one group leaves the
\* other group's session as it was and the shared player playing to it.
C4_StopLeavesOtherGroupPlaying ==
  [][\A c \in cmd' :
       (/\ c.action = "stop"
        /\ \A o \in Guilds : GetVoiceConnection(sessions, o) # {}
        /\ PipelinePlaying(player))
       => (/\ \A o \in Guilds \ {c.guild} :
                GetVoiceConnection(sessions', o) = GetVoiceConnection(sessions, o)
           /\ PipelinePlaying(player'))]_vars

\* C5: in every reachable state each group has at most one registered session.
C5_AtMostOneSessionPerGroup ==
  \A g \in Guilds : Cardinality(GetVoiceConnection(sessions, g)) <= 1

\* both groups have a session and a further play, on a group that had one, has
\* just been answered Connected
C5_Witness ==
  /\ \A g \in Guilds : GetVoiceConnection(sessions, g) # {}
  /\ \E c \in cmd : c.action = "play"
  /\ \E h \in Awaiting("Connected") : ~h.created
  /\ \E r \in sent : r.kind = "Connected"

C7_UnknownNameReported ==
  [][\A c \in cmd' :
       (/\ c.action = "play"
        /\ c.target \in NameTargets
        /\ GetVoiceChannelByName(c.guild, c.target) = {})
       => (/\ sent' = {Reply("InvalidTarget", c.target)}
           /\ sessions' = sessions
           /\ \A h \in done' : h.stage # "rejected")]_vars

\* C8: a play whose target id is unknown, or is the id of a channel that is
\* not a voice channel, hands nothing to the gateway, leaves the registry and
\* the player as they were, and replies InvalidTarget with the id.
C8_ValidationPrecedesConnect ==
  [][\A c \in cmd' :
       (/\ c.action = "play"
        /\ c.target \in IdTargets
        /\ \/ c.target \notin ChannelIds
           \/ c.target \in TextChannels)
       => (/\ sessions' = sessions
           /\ vsQueue' = vsQueue
           /\ player' = player
           /\ sent' = {Reply("InvalidTarget", c.target)}
           /\ \E h \in BagToSet(handlers') : h.kind = "InvalidTarget")]_vars

\* a play with the id of the text channel has just been answered InvalidTarget
\* while G1 has a session
C8_Witness ==
  /\ cmd = {Command("play", "G1", "T1", FALSE)}
  /\ sent = {Reply("InvalidTarget", "T1")}
  /\ Awaiting("InvalidTarget") # {}
  /\ GetVoiceConnection(sessions, "G1") # {}

\* C9: a stop in a group without a session replies NotConnected and leaves the
\* registry, the gateway and the player as they were.
C9_StopWithoutSessionIsNoOp ==
  [][\A c \in cmd' :
       (c.action = "stop" /\ GetVoiceConnection(sessions, c.guild) = {})
       => (/\ sessions' = sessions
           /\ vsQueue' = vsQueue
           /\ player' = player
           /\ sent' = {Reply("NotConnected", Null)})]_vars

\* a stop has just been answered NotConnected with no session left, after an
\* earlier stop that had destroyed one (the player's resource has been ended)
C9_Witness ==
  /\ \E c \in cmd : c.action = "stop"
  /\ sent = {Reply("NotConnected", Null)}
  /\ Awaiting("NotConnected") # {}
  /\ sessions = {}
  /\ player.ending

\* C10: a stop in a group whose session is on channel c replies Disconnected
\* with c, whatever the member cache holds at that moment.
C10_StopReportsChannelLeft ==
  [][\A c \in cmd' : c.action = "stop" =>
       \A s \in GetVoiceConnection(sessions, c.guild) :
          sent' = {Reply("Disconnected", s.channel)}]_vars

C12_NoSendFailureEscapes ==
  \A h \in done : h.kind # "none" => h.stage # "rejected"

\* the interrupt has just been handled
Interrupted == {c \in cmd : c.action = "SIGINT"}

\* C13: when the interrupt arrives while two or more groups have a session,
\* every session has been destroyed (its leave payload handed to the gateway)
\* when the process exits, and the exit code is 130.
C13_ShutdownDestroysEverySession ==
  [][\A c \in cmd' :
       (c.action = "SIGINT" /\ Cardinality(Connected(sessions)) >= 2)
       => (/\ sessions' = {}
           /\ c.left = Connected(sessions)
           /\ \A g \in Connected(sessions) : vsQueue'[g] = Append(vsQueue[g], Null)
           /\ proc' = [status |-> "exited", code |-> 130])]_vars

\* the interrupt found sessions in both groups and the process has exited
C13_Witness ==
  /\ \E c \in Interrupted : c.left = Guilds
  /\ sessions = {}
  /\ proc.status = "exited"

\* C14: the process never exits on the interrupt path with the pipeline still
\* playing (the player is stopped before the client is released).
C14_PipelineStoppedBeforeExit ==
  (proc.status = "exited" /\ proc.code = InterruptedExitCode)
    => player.status # "Playing"

C16_StartupFailureCodeDistinct ==
  [][(proc.status \in {"unsupported", "captureFailed"} /\ proc'.status = "exited")
       => proc'.code \notin {0, InterruptedExitCode}]_vars

\* C17: with a device whose sample rate is not 48000 Hz, createStream fails
\* before a player or capture stream is constructed, and the process goes on to
\* exit without a player, a session or a command handled.
C17_UnsupportedDeviceStartsNothing ==
  [][/\ \A c \in cmd' :
          (c.action = "ready" /\ c.device.defaultSampleRate # 48000)
          => (/\ ~c.constructed
              /\ player' = NoPlayer
              /\ proc'.status = "unsupported")
     /\ proc.status = "unsupported"
          => (/\ proc'.status = "exited"
              /\ player' = NoPlayer
              /\ sessions' = {}
              /\ handlers' = EmptyBag
              /\ cmd' = {})]_vars

\* a 44100 Hz device has just been refused
C17_Witness ==
  /\ \E c \in cmd : c.action = "ready" /\ c.device.defaultSampleRate = 44100
                    /\ ~c.constructed
  /\ proc.status = "unsupported"
  /\ player = NoPlayer

\* C18: the device test lets createStream construct the player exactly for the
\* descriptors with 48000 Hz and 2 channels (the descriptor carries no bit depth).
C18_ValidationChecksWholeFormat ==
  \A c \in cmd : c.action = "ready" =>
    (c.constructed <=> (/\ c.device.defaultSampleRate = 48000
                        /\ c.device.maxInputChannels = 2))

\* C19: whenever the player turns Idle no error is raised (the process keeps
\* running) and no connection is left attached to it.
C19_IdleTransitionDetaches ==
  [][(player.status # "Idle" /\ player'.status = "Idle")
       => (/\ proc'.status = "running"
           /\ Subscribers(sessions') = {})]_vars

====
